---- MODULE Spec2Model ----
(***************************************************************************)
(* Model of the Drive subsystem (src/src/subsystems/drive.py) and of the   *)
(* constants it uses (src/src/utils/constants.py).                         *)
(*                                                                         *)
(* Numbers.  Operator inputs are fixed-point hundredths (50 = 0.50), the   *)
(* scale factors are tenths (5 = 0.5), so duty cycles are thousandths      *)
(* (250 = 0.250, UNIT = 1.0).                                              *)
(*                                                                         *)
(* Faults.  Every call into code outside Drive (a hardware write, the      *)
(* alternate drivetrain, the autonomous factory, an import) has an outcome *)
(* drawn by the environment.  A raised exception is one of the kinds       *)
(* "TypeError" and "Exception" (any other Exception subclass); an except   *)
(* clause is the set of kinds it catches.                                  *)
(***************************************************************************)
EXTENDS Integers, Sequences, FiniteSets, TLC

VARIABLES
    phoenix,              \* the phoenix6 import succeeded (drive.py 20-30)
    constructed,          \* "new", "ready", or "raised" (__init__ raised)
    _enabled,
    _disable_reason,
    _disable_reported,
    tuner_drivetrain,
    _autonomous_factory,
    drive_motors,
    steer_motors,
    attempted,            \* CAN ids whose TalonFX construction was attempted
    discovered,           \* whether _try_create_tuner_drivetrain was run
    commands,             \* commands built by Drive that callers still hold
    op,                   \* the last operation and the outcomes it met
    args,                 \* arguments of the drive() call
    writes,               \* set_control calls that succeeded in the last op
    calls,                \* delegate / factory calls and imports of the last op
    warnings,             \* wpilib.reportWarning messages of the last op
    disable_warnings,     \* every warning _disable has ever reported
    escaped,              \* the last op raised to its caller
    ret,                  \* the command the last op returned
    \* robot.py, class Robot
    mode,                 \* the mode whose hooks the lifecycle driver runs
    phase,                \* where the driver is in its loop iteration
    autonomous_command,
    _drive_faulted,
    scheduled,            \* commands scheduled and neither finished nor
                          \* cancelled
    hook                  \* the last Robot hook, what it scheduled and
                          \* cancelled

vars == <<phoenix, constructed, _enabled, _disable_reason, _disable_reported,
          tuner_drivetrain, _autonomous_factory, drive_motors, steer_motors,
          attempted, discovered, commands, op, args, writes, calls, warnings,
          disable_warnings, escaped, ret, mode, phase, autonomous_command,
          _drive_faulted, scheduled, hook>>

selfVars == <<_enabled, _disable_reason, _disable_reported, disable_warnings>>
frozenVars == <<phoenix, constructed, tuner_drivetrain, _autonomous_factory,
                drive_motors, steer_motors, attempted, discovered>>
robotVars == <<mode, phase, autonomous_command, _drive_faulted, scheduled,
               hook>>

----------------------------------------------------------------------------
(* Bounds *)

Far == 300                \* magnitude of an input far outside [-1, 1]

----------------------------------------------------------------------------
(* utils/constants.py *)

FRONT_LEFT  == [drive_motor_id |-> 1, steer_motor_id |-> 11]
FRONT_RIGHT == [drive_motor_id |-> 2, steer_motor_id |-> 12]
BACK_LEFT   == [drive_motor_id |-> 3, steer_motor_id |-> 13]
BACK_RIGHT  == [drive_motor_id |-> 4, steer_motor_id |-> 14]

MODULES == <<FRONT_LEFT, FRONT_RIGHT, BACK_LEFT, BACK_RIGHT>>

TRANSLATION_DEADBAND == 8
ROTATION_DEADBAND == 8
MAX_TRANSLATION_OUTPUT == 5
MAX_ROTATION_OUTPUT == 4

UNIT == 1000

----------------------------------------------------------------------------
(* Exceptions *)

ExceptTypeError == {"TypeError"}
ExceptException == {"TypeError", "Exception"}
FaultKinds == {"TypeError", "Exception"}

TalonFXImpl == phoenix
DutyCycleOutImpl == phoenix

None == [present |-> FALSE, hasDrive |-> FALSE, hasGetter |-> FALSE]
TunerShapes == {[present |-> TRUE, hasDrive |-> d, hasGetter |-> g] :
                    d \in BOOLEAN, g \in BOOLEAN}

NoOp == [name |-> "none", c |-> "na", d |-> "na", f |-> -1,
         g |-> "na", a0 |-> "na", a1 |-> "na"]

----------------------------------------------------------------------------
(* Capability discovery *)

NumCandidates == 3

TunerImportOutcomes ==
    {"ModuleNotFound", "ImportFault", "NoSymbol", "CtorFault", "Ok"}
FactoryImportOutcomes ==
    {"ModuleNotFound", "ImportFault", "NotCallable", "Ok"}

\* one importlib.import_module call: candidate i and what came of it
TunerProbe(i, outcome) == [fn |-> "import_tuner", with |-> <<i, outcome>>]
FactoryProbe(i, outcome) == [fn |-> "import_factory", with |-> <<i, outcome>>]

\* a failed construction does not end the search
RECURSIVE _try_create_tuner_drivetrain_m(_, _, _, _)
_try_create_tuner_drivetrain_m(env, shape, i, probes) ==
    IF i > NumCandidates
    THEN [raised |-> FALSE, result |-> None, warned |-> <<>>,
          probes |-> probes]
    ELSE LET seen == Append(probes, TunerProbe(i, env[i]))
         IN  CASE env[i] = "ModuleNotFound" ->
                    _try_create_tuner_drivetrain_m(env, shape, i + 1, seen)
               [] env[i] = "ImportFault" ->
                    [raised |-> TRUE, result |-> None, warned |-> <<>>,
                     probes |-> seen]
               [] env[i] = "NoSymbol" ->
                    _try_create_tuner_drivetrain_m(env, shape, i + 1, seen)
               [] env[i] = "CtorFault" ->
                    LET rest == _try_create_tuner_drivetrain_m(
                                    env, shape, i + 1, seen)
                    IN  [rest EXCEPT !.warned =
                            <<"tuner_construct_failed">> \o rest.warned]
               [] env[i] = "Ok" ->
                    [raised |-> FALSE, result |-> shape, warned |-> <<>>,
                     probes |-> seen]

\* for module_name, class_name in candidates (from candidate i on); probes:
\* the imports made so far
RECURSIVE _try_create_tuner_drivetrain(_, _, _, _)
_try_create_tuner_drivetrain(env, shape, i, probes) ==
    IF i > NumCandidates
    THEN [raised |-> FALSE, result |-> None, warned |-> <<>>,
          probes |-> probes]
    ELSE LET seen == Append(probes, TunerProbe(i, env[i]))
         IN  CASE env[i] = "ModuleNotFound" ->
                    _try_create_tuner_drivetrain(env, shape, i + 1, seen)
               [] env[i] = "ImportFault" ->
                    [raised |-> TRUE, result |-> None, warned |-> <<>>,
                     probes |-> seen]
               [] env[i] = "NoSymbol" ->
                    _try_create_tuner_drivetrain(env, shape, i + 1, seen)
               [] env[i] = "CtorFault" ->
                    [raised |-> FALSE, result |-> None,
                     warned |-> <<"tuner_construct_failed">>,
                     probes |-> seen]
               [] env[i] = "Ok" ->
                    [raised |-> FALSE, result |-> shape, warned |-> <<>>,
                     probes |-> seen]

\* for module_name, fn_name in candidates (from candidate i on); probes: the
\* imports made so far
RECURSIVE _try_create_tuner_auto_factory(_, _, _)
_try_create_tuner_auto_factory(env, i, probes) ==
    IF i > NumCandidates
    THEN [raised |-> FALSE, result |-> FALSE, probes |-> probes]
    ELSE LET seen == Append(probes, FactoryProbe(i, env[i]))
         IN  CASE env[i] = "ModuleNotFound" ->
                    _try_create_tuner_auto_factory(env, i + 1, seen)
               [] env[i] = "ImportFault" ->
                    [raised |-> TRUE, result |-> FALSE, probes |-> seen]
               [] env[i] = "NotCallable" ->
                    _try_create_tuner_auto_factory(env, i + 1, seen)
               [] env[i] = "Ok" ->
                    [raised |-> FALSE, result |-> TRUE, probes |-> seen]

----------------------------------------------------------------------------
(* _disable *)

\* the check of _disable_reported left out
DisableReport_m(reason) == <<reason>>

\* the warning _disable reports, if any
DisableReport(reason) ==
    IF ~_disable_reported THEN <<reason>> ELSE <<>>

\* the two flags mixed up: _enabled takes the value of _disable_reported
_disable_m(reason) ==
    /\ _enabled' = _disable_reported
    /\ _disable_reason' = reason
    /\ _disable_reported' = TRUE
    /\ disable_warnings' = disable_warnings \o DisableReport(reason)

_disable(reason) ==
    /\ _enabled' = FALSE
    /\ _disable_reason' = reason
    /\ _disable_reported' = TRUE
    /\ disable_warnings' = disable_warnings \o DisableReport(reason)

----------------------------------------------------------------------------
(* _init_hardware *)

NoFail == 2 * Len(MODULES)

\* the clear() left out
ClearMotors_m(motors) == motors

\* what the except branch leaves in a motor list
ClearMotors(motors) == <<>>

\* The loop over DriveConstants.MODULES from module i on.  hf is the index,
\* in construction order (drive 0, steer 0, drive 1, ...), of the first
\* TalonFX construction that raises; NoFail when none does.
RECURSIVE InitLoop(_, _, _, _, _)
InitLoop(i, dm, sm, att, hf) ==
    IF i > Len(MODULES)
    THEN [drive_motors |-> dm, steer_motors |-> sm, attempted |-> att,
          failed |-> FALSE]
    ELSE LET m == MODULES[i]
         IN  IF hf = 2 * (i - 1)
             THEN [drive_motors |-> ClearMotors(dm),
                   steer_motors |-> ClearMotors(sm),
                   attempted |-> Append(att, m.drive_motor_id),
                   failed |-> TRUE]
             ELSE IF hf = 2 * (i - 1) + 1
             THEN [drive_motors |-> ClearMotors(Append(dm, m.drive_motor_id)),
                   steer_motors |-> ClearMotors(sm),
                   attempted |-> att \o <<m.drive_motor_id, m.steer_motor_id>>,
                   failed |-> TRUE]
             ELSE InitLoop(i + 1,
                           Append(dm, m.drive_motor_id),
                           Append(sm, m.steer_motor_id),
                           att \o <<m.drive_motor_id, m.steer_motor_id>>,
                           hf)

_init_hardware(hf) ==
    IF ~TalonFXImpl
    THEN [drive_motors |-> <<>>, steer_motors |-> <<>>, attempted |-> <<>>,
          failed |-> TRUE, reason |-> "talonfx_unavailable"]
    ELSE LET r == InitLoop(1, <<>>, <<>>, <<>>, hf)
         IN  [drive_motors |-> r.drive_motors, steer_motors |-> r.steer_motors,
              attempted |-> r.attempted, failed |-> r.failed,
              reason |-> "init_hardware_failed"]

----------------------------------------------------------------------------
(* Drive.__init__ *)

\* no Robot hook has run
NoHook == [name |-> "none", schedule |-> "None", cancel |-> "None"]

\* the Robot fields before robotInit; the driver has entered no mode
RobotNew ==
    /\ mode = "none"
    /\ phase = "top"
    /\ autonomous_command = "None"
    /\ _drive_faulted = FALSE
    /\ scheduled = {}
    /\ hook = NoHook

Init ==
    /\ phoenix \in BOOLEAN
    /\ constructed = "new"
    /\ _enabled = TRUE
    /\ _disable_reason = "None"
    /\ _disable_reported = FALSE
    /\ tuner_drivetrain = None
    /\ _autonomous_factory = FALSE
    /\ drive_motors = <<>>
    /\ steer_motors = <<>>
    /\ attempted = <<>>
    /\ discovered = FALSE
    /\ commands = {}
    /\ op = NoOp
    /\ args = <<0, 0, 0, FALSE>>
    /\ writes = <<>>
    /\ calls = <<>>
    /\ warnings = <<>>
    /\ disable_warnings = <<>>
    /\ escaped = FALSE
    /\ ret = "none"
    /\ RobotNew

\* the check that skips discovery and hardware: the guard left out
PhoenixMissing_m == FALSE

\* if TalonFXImpl is None or DutyCycleOutImpl is None
PhoenixMissing == ~TalonFXImpl \/ ~DutyCycleOutImpl

ConstructRaised ==
    /\ constructed' = "raised"
    /\ escaped' = TRUE
    /\ warnings' = <<>>
    /\ UNCHANGED <<selfVars, drive_motors, steer_motors, attempted>>

\* fenv, tenv: what importing each candidate location yields; shape: the
\* drivetrain a successful construction yields; hf: see InitLoop.
DriveInit(fenv, tenv, shape, hf) ==
    /\ constructed = "new"
    /\ op' = [NoOp EXCEPT !.name = "__init__", !.f = hf]
    /\ UNCHANGED <<phoenix, commands, args, writes, ret>>
    /\ LET fac == _try_create_tuner_auto_factory(fenv, 1, <<>>)
       IN  IF fac.raised
           THEN /\ ConstructRaised
                /\ calls' = fac.probes
                /\ UNCHANGED <<tuner_drivetrain, _autonomous_factory,
                               discovered>>
           ELSE
           /\ _autonomous_factory' = fac.result
           /\ IF PhoenixMissing
              THEN /\ _disable("phoenix_unavailable")
                   /\ warnings' = DisableReport("phoenix_unavailable")
                   /\ constructed' = "ready"
                   /\ escaped' = FALSE
                   /\ calls' = fac.probes
                   /\ UNCHANGED <<tuner_drivetrain, discovered, drive_motors,
                                  steer_motors, attempted>>
              ELSE
              LET tun == _try_create_tuner_drivetrain(tenv, shape, 1, <<>>)
              IN  /\ discovered' = TRUE
                  /\ calls' = fac.probes \o tun.probes
                  /\ IF tun.raised
                     THEN /\ ConstructRaised
                          /\ UNCHANGED tuner_drivetrain
                     ELSE
                     LET hw == _init_hardware(hf)
                     IN  /\ tuner_drivetrain' = tun.result
                         /\ drive_motors' = hw.drive_motors
                         /\ steer_motors' = hw.steer_motors
                         /\ attempted' = hw.attempted
                         /\ constructed' = "ready"
                         /\ escaped' = FALSE
                         /\ IF hw.failed
                            THEN /\ _disable(hw.reason)
                                 /\ warnings' =
                                      tun.warned \o DisableReport(hw.reason)
                            ELSE /\ UNCHANGED selfVars
                                 /\ warnings' = tun.warned

----------------------------------------------------------------------------
(* Arithmetic of the built-in path *)

Abs(v) == IF v < 0 THEN -v ELSE v
Min(a, b) == IF b < a THEN b ELSE a
Max(a, b) == IF b > a THEN b ELSE a

\* <= where the code has <
_apply_deadband_m(value, deadband) ==
    IF Abs(value) <= deadband THEN 0 ELSE value

_apply_deadband(value, deadband) ==
    IF Abs(value) < deadband THEN 0 ELSE value

\* the upper limit left out
_clamp_m(value) == Max(-UNIT, value)

_clamp(value) == Max(-UNIT, Min(UNIT, value))

\* the scaling of x left out
ScaledX_m(x_displacement) ==
    _apply_deadband(x_displacement, TRANSLATION_DEADBAND)

ScaledX(x_displacement) ==
    _apply_deadband(x_displacement, TRANSLATION_DEADBAND)
        * MAX_TRANSLATION_OUTPUT
ScaledY(y_displacement) ==
    _apply_deadband(y_displacement, TRANSLATION_DEADBAND)
        * MAX_TRANSLATION_OUTPUT
ScaledOmega(rotation) ==
    _apply_deadband(rotation, ROTATION_DEADBAND) * MAX_ROTATION_OUTPUT

\* drive_outputs: front left, front right, back left, back right
DriveOutputs(x_displacement, y_displacement, rotation) ==
    LET x == ScaledX(x_displacement)
        y == ScaledY(y_displacement)
        omega == ScaledOmega(rotation)
    IN  <<_clamp(x + y + omega),
          _clamp(x - y - omega),
          _clamp(x - y + omega),
          _clamp(x + y - omega)>>

SteerOutput(rotation) == _clamp(ScaledOmega(rotation))

----------------------------------------------------------------------------
(* Hardware writes *)

NumWrites == Len(drive_motors) + Len(steer_motors)

\* One "for motor ...: try: motor.set_control(...)" loop.  values[i] is the
\* duty cycle for motors[i] (zip stops at the shorter one); k is the index in
\* this loop (from 0) of the first write that raises, past the end when none
\* does.  A write that raises is not recorded as written.
\* the loop goes on after the write that raises
WriteLoop_m(motors, values, k) ==
    LET n == Min(Len(motors), Len(values))
        ok == {i \in 1..n : i # k + 1}
    IN  [written |-> [j \in 1..Cardinality(ok) |->
                         LET i == CHOOSE i \in ok :
                                    Cardinality({m \in ok : m < i}) = j - 1
                         IN  [h |-> motors[i], v |-> values[i]]],
         failed |-> k >= 0 /\ k < n]

WriteLoop(motors, values, k) ==
    LET n == Min(Len(motors), Len(values))
    IN  [written |-> [i \in 1..Min(n, Max(k, 0)) |->
                         [h |-> motors[i], v |-> values[i]]],
         failed |-> k >= 0 /\ k < n]

\* a fault that disables the subsystem at run time discards the handles, as
\* a construction fault does
KeepConstructed_m ==
    /\ UNCHANGED <<phoenix, constructed, tuner_drivetrain,
                   _autonomous_factory, attempted, discovered>>
    /\ drive_motors' = IF _enabled /\ ~_enabled'
                       THEN ClearMotors(drive_motors) ELSE drive_motors
    /\ steer_motors' = IF _enabled /\ ~_enabled'
                       THEN ClearMotors(steer_motors) ELSE steer_motors

\* drive(), stop() and get_autonomous_command() assign none of the fields
\* that __init__ filled
KeepConstructed == UNCHANGED frozenVars

\* handlers around the writes
DriveWriteHandler == ExceptException
SteerWriteHandler == ExceptException
StopDriveHandler == ExceptException
StopSteerHandler == ExceptException

\* The two write loops of drive() and of stop(): f is the position (from 0,
\* drive handles first) of the first write that raises with kind e.
TwoLoops(dvals, svals, f, e, dHandler, sHandler, dReason, sReason) ==
    LET dl == WriteLoop(drive_motors, dvals, f)
        sl == WriteLoop(steer_motors, svals,
                        f - Min(Len(drive_motors), Len(dvals)))
    IN  IF dl.failed
        THEN /\ writes' = dl.written
             /\ IF e \in dHandler
                THEN /\ _disable(dReason)
                     /\ warnings' = DisableReport(dReason)
                     /\ escaped' = FALSE
                ELSE /\ UNCHANGED selfVars
                     /\ warnings' = <<>>
                     /\ escaped' = TRUE
        ELSE IF sl.failed
        THEN /\ writes' = dl.written \o sl.written
             /\ IF e \in sHandler
                THEN /\ _disable(sReason)
                     /\ warnings' = DisableReport(sReason)
                     /\ escaped' = FALSE
                ELSE /\ UNCHANGED selfVars
                     /\ warnings' = <<>>
                     /\ escaped' = TRUE
        ELSE /\ writes' = dl.written \o sl.written
             /\ UNCHANGED selfVars
             /\ warnings' = <<>>
             /\ escaped' = FALSE

Quiet ==
    /\ writes' = <<>>
    /\ warnings' = <<>>
    /\ escaped' = FALSE
    /\ UNCHANGED selfVars

----------------------------------------------------------------------------
(* drive *)

DelegateOutcomes == {"ok", "TypeError", "Exception"}

\* the except TypeError clause left out
DelegatePassHandler_m == {}

DelegatePassHandler == ExceptTypeError
DelegateFaultHandler == ExceptException

\* the early return left out
DriveGate_m == FALSE

\* if not self._enabled: return
DriveGate == ~_enabled

BuiltInPath(x, y, rotation, f, e) ==
    IF ~DutyCycleOutImpl
    THEN /\ _disable("dutycycle_unavailable")
         /\ warnings' = DisableReport("dutycycle_unavailable")
         /\ writes' = <<>>
         /\ escaped' = FALSE
    ELSE TwoLoops(DriveOutputs(x, y, rotation),
                  [i \in 1..Len(steer_motors) |-> SteerOutput(rotation)],
                  f, e, DriveWriteHandler, SteerWriteHandler,
                  "drive_output_failed", "steer_output_failed")

\* d: outcome of the alternate drivetrain's drive(); f, e: see TwoLoops.
drive(x, y, rotation, field_oriented, d, f, e) ==
    /\ constructed = "ready"
    /\ args' = <<x, y, rotation, field_oriented>>
    /\ ret' = "none"
    /\ UNCHANGED commands
    /\ IF DriveGate
       THEN /\ Quiet
            /\ calls' = <<>>
            /\ op' = [NoOp EXCEPT !.name = "drive"]
       ELSE IF tuner_drivetrain.present /\ tuner_drivetrain.hasDrive
       THEN /\ calls' = <<[fn |-> "tuner_drive",
                           with |-> <<x, y, rotation, field_oriented>>]>>
            /\ IF d = "ok"
               THEN /\ Quiet
                    /\ op' = [NoOp EXCEPT !.name = "drive", !.d = d]
               ELSE IF d \in DelegatePassHandler
               THEN /\ BuiltInPath(x, y, rotation, f, e)
                    /\ op' = [NoOp EXCEPT !.name = "drive", !.d = d,
                                          !.f = f]
               ELSE IF d \in DelegateFaultHandler
               THEN /\ _disable("tuner_drive_failed")
                    /\ warnings' = DisableReport("tuner_drive_failed")
                    /\ writes' = <<>>
                    /\ escaped' = FALSE
                    /\ op' = [NoOp EXCEPT !.name = "drive", !.d = d]
               ELSE /\ UNCHANGED selfVars
                    /\ warnings' = <<>>
                    /\ writes' = <<>>
                    /\ escaped' = TRUE
                    /\ op' = [NoOp EXCEPT !.name = "drive", !.d = d]
       ELSE /\ calls' = <<>>
            /\ BuiltInPath(x, y, rotation, f, e)
            /\ op' = [NoOp EXCEPT !.name = "drive", !.f = f]
    /\ KeepConstructed

----------------------------------------------------------------------------
(* stop *)

Zeros(motors) == [i \in 1..Len(motors) |-> 0]

StopBody(f, e) ==
    IF ~DutyCycleOutImpl
    THEN Quiet
    ELSE TwoLoops(Zeros(drive_motors), Zeros(steer_motors), f, e,
                  StopDriveHandler, StopSteerHandler,
                  "stop_drive_failed", "stop_steer_failed")

stop(f, e) ==
    /\ constructed = "ready"
    /\ StopBody(f, e)
    /\ calls' = <<>>
    /\ ret' = "none"
    /\ op' = [NoOp EXCEPT !.name = "stop", !.f = f]
    /\ UNCHANGED <<commands, args>>
    /\ KeepConstructed


----------------------------------------------------------------------------
(* get_autonomous_command *)

\* what a getter or factory call can yield: a schedulable command, None, an
\* object without a schedule attribute, or an exception
CallOutcomes == {"cmd", "none", "nonsched", "TypeError", "Exception"}

GetterHandler == ExceptException
\* the retry made on any exception
FactoryRetryOn_m == ExceptException

FactoryRetryOn == ExceptTypeError
FactoryHandler == ExceptException
\* the retry not wrapped in a try
RetryHandler_m == {}

RetryHandler == ExceptException

\* hasattr asked for an attribute no command has
Schedulable_m(command) == FALSE

\* command is not None and hasattr(command, "schedule")
Schedulable(command) == command = "cmd"

ReturnNoOp(reason) ==
    /\ _disable(reason)
    /\ warnings' = DisableReport(reason)
    /\ escaped' = FALSE
    /\ ret' = "noop"

Escape ==
    /\ UNCHANGED selfVars
    /\ warnings' = <<>>
    /\ escaped' = TRUE
    /\ ret' = "none"

Return(command) ==
    /\ UNCHANGED selfVars
    /\ warnings' = <<>>
    /\ escaped' = FALSE
    /\ ret' = command

\* the fallback returns the no-op command and reports nothing
StopCommand_m ==
    /\ UNCHANGED selfVars
    /\ warnings' = <<>>
    /\ escaped' = FALSE
    /\ ret' = "noop"

StopCommand ==
    /\ UNCHANGED selfVars
    /\ warnings' = <<"no_autonomous_source">>
    /\ escaped' = FALSE
    /\ ret' = "stop"

\* lines 227-247: the factory tier and the final fallback; made: the calls
\* made so far in this operation
FactoryTier(made, g, a0, a1) ==
    IF _autonomous_factory
    THEN LET first == [fn |-> "factory", with |-> <<>>]
             retry == [fn |-> "factory", with |-> <<"self">>]
         IN  IF a0 \in FactoryRetryOn
             THEN /\ calls' = made \o <<first, retry>>
                  /\ op' = [NoOp EXCEPT !.name = "get_autonomous_command",
                                        !.g = g, !.a0 = a0, !.a1 = a1]
                  /\ IF a1 \in FaultKinds
                     THEN IF a1 \in RetryHandler
                          THEN ReturnNoOp("factory_failed")
                          ELSE Escape
                     ELSE IF Schedulable(a1)
                          THEN Return("factory_cmd")
                          ELSE StopCommand
             ELSE /\ calls' = made \o <<first>>
                  /\ op' = [NoOp EXCEPT !.name = "get_autonomous_command",
                                        !.g = g, !.a0 = a0]
                  /\ IF a0 \in FaultKinds
                     THEN IF a0 \in FactoryHandler
                          THEN ReturnNoOp("factory_failed")
                          ELSE Escape
                     ELSE IF Schedulable(a0)
                          THEN Return("factory_cmd")
                          ELSE StopCommand
    ELSE /\ calls' = made
         /\ op' = [NoOp EXCEPT !.name = "get_autonomous_command", !.g = g]
         /\ StopCommand

\* g: outcome of the alternate drivetrain's getter; a0, a1: outcomes of the
\* factory called with no argument and with the subsystem
get_autonomous_command(g, a0, a1) ==
    /\ constructed = "ready"
    /\ writes' = <<>>
    /\ UNCHANGED args
    /\ IF ~_enabled
       THEN /\ Return("noop")
            /\ calls' = <<>>
            /\ op' = [NoOp EXCEPT !.name = "get_autonomous_command"]
       ELSE IF tuner_drivetrain.present /\ tuner_drivetrain.hasGetter
       THEN LET getter == [fn |-> "getter", with |-> <<>>]
            IN  IF g \in FaultKinds
                THEN /\ calls' = <<getter>>
                     /\ op' = [NoOp EXCEPT !.name = "get_autonomous_command",
                                           !.g = g]
                     /\ IF g \in GetterHandler
                        THEN ReturnNoOp("tuner_getter_failed")
                        ELSE Escape
                ELSE IF Schedulable(g)
                THEN /\ calls' = <<getter>>
                     /\ op' = [NoOp EXCEPT !.name = "get_autonomous_command",
                                           !.g = g]
                     /\ Return("tuner_cmd")
                ELSE FactoryTier(<<getter>>, g, a0, a1)
       ELSE FactoryTier(<<>>, "na", a0, a1)
    /\ commands' = IF ret' \in {"noop", "stop"}
                   THEN commands \cup {ret'} ELSE commands
    /\ KeepConstructed

----------------------------------------------------------------------------
(* Running a command that get_autonomous_command built *)

\* InstantCommand(lambda: None) and InstantCommand(self.stop)
RunCommand(c, f, e) ==
    /\ constructed = "ready"
    /\ c \in commands
    /\ calls' = <<>>
    /\ ret' = "none"
    /\ UNCHANGED <<commands, args>>
    /\ IF c = "stop"
       THEN /\ StopBody(f, e)
            /\ op' = [NoOp EXCEPT !.name = "run", !.c = c, !.f = f]
       ELSE /\ Quiet
            /\ op' = [NoOp EXCEPT !.name = "run", !.c = c]
    /\ KeepConstructed

----------------------------------------------------------------------------
(* Inputs *)

\* arguments of drive(): the spec's scenarios and a saturating one
DriveArgs == {<<50, 0, 0>>, <<0, 0, 100>>, <<Far, -Far, Far>>}

\* outcomes the environment draws, only for the calls that are made
DelegateDraw ==
    IF ~DriveGate /\ tuner_drivetrain.present /\ tuner_drivetrain.hasDrive
    THEN DelegateOutcomes ELSE {"na"}
WriteDraw(reached) ==
    IF reached /\ DutyCycleOutImpl THEN 0..NumWrites ELSE {-1}
KindDraw(f) ==
    IF f >= 0 /\ f < NumWrites THEN FaultKinds ELSE {"na"}
GetterDraw ==
    IF _enabled /\ tuner_drivetrain.present /\ tuner_drivetrain.hasGetter
    THEN CallOutcomes ELSE {"na"}
FactoryDraw(g) ==
    IF _enabled /\ _autonomous_factory /\ g \in {"na", "none", "nonsched"}
    THEN CallOutcomes ELSE {"na"}
RetryDraw(a0) ==
    IF a0 = "TypeError" THEN CallOutcomes ELSE {"na"}

NothingFound == [i \in 1..NumCandidates |-> "ModuleNotFound"]
TunerEnvDraw(fenv) ==
    IF phoenix /\ ~_try_create_tuner_auto_factory(fenv, 1, <<>>).raised
    THEN [1..NumCandidates -> TunerImportOutcomes] ELSE {NothingFound}
ShapeDraw(tenv) ==
    IF \E i \in 1..NumCandidates : tenv[i] = "Ok"
    THEN TunerShapes ELSE {None}
HardwareDraw(fenv, tenv) ==
    IF /\ phoenix
       /\ ~_try_create_tuner_auto_factory(fenv, 1, <<>>).raised
       /\ ~_try_create_tuner_drivetrain(tenv, None, 1, <<>>).raised
    THEN 0..NoFail ELSE {-1}

ConstructAct ==
    /\ constructed = "new"
    /\ \E fenv \in [1..NumCandidates -> FactoryImportOutcomes] :
        \E tenv \in TunerEnvDraw(fenv) :
          \E shape \in ShapeDraw(tenv), hf \in HardwareDraw(fenv, tenv) :
            DriveInit(fenv, tenv, shape, hf)
    /\ UNCHANGED robotVars

DriveAct ==
    /\ constructed = "ready"
    /\ \E a \in DriveArgs, fo \in BOOLEAN :
      \E d \in DelegateDraw :
        \E f \in WriteDraw(~DriveGate /\ d \in {"na", "TypeError"}) :
          \E e \in KindDraw(f) :
            drive(a[1], a[2], a[3], fo, d, f, e)
    /\ UNCHANGED robotVars

StopAct ==
    /\ constructed = "ready"
    /\ \E f \in WriteDraw(TRUE) : \E e \in KindDraw(f) : stop(f, e)
    /\ UNCHANGED robotVars

AutoAct ==
    /\ \E g \in GetterDraw :
         \E a0 \in FactoryDraw(g) : \E a1 \in RetryDraw(a0) :
            get_autonomous_command(g, a0, a1)
    /\ UNCHANGED robotVars

RunAct ==
    /\ \E c \in commands :
         \E f \in WriteDraw(c = "stop") : \E e \in KindDraw(f) :
            RunCommand(c, f, e)
    /\ UNCHANGED robotVars

Next == ConstructAct \/ DriveAct \/ StopAct \/ AutoAct \/ RunAct

Spec == Init /\ [][Next]_vars

TypeOK ==
    /\ phoenix \in BOOLEAN
    /\ constructed \in {"new", "ready", "raised"}
    /\ _enabled \in BOOLEAN
    /\ _disable_reported \in BOOLEAN
    /\ tuner_drivetrain \in TunerShapes \cup {None}
    /\ _autonomous_factory \in BOOLEAN
    /\ commands \subseteq {"noop", "stop"}
    /\ escaped \in BOOLEAN
    /\ ret \in {"none", "noop", "stop", "tuner_cmd", "factory_cmd"}
    /\ mode \in {"none", "disabled", "autonomous", "teleop", "test"}
    /\ phase \in {"top", "periodic", "run"}
    /\ autonomous_command \in
          {"None", "noop", "stop", "tuner_cmd", "factory_cmd"}
    /\ _drive_faulted \in BOOLEAN
    /\ scheduled \subseteq {"noop", "stop", "tuner_cmd", "factory_cmd"}

----------------------------------------------------------------------------
(* The built-in path over a grid of inputs.  The subsystem starts as a     *)
(* successful construction leaves it (no autonomous factory, with or       *)
(* without an alternate drivetrain that has drive()), and every drive()    *)
(* call is given the arguments drawn at the start.                         *)

GridValues ==
    {-Far, -100, -TRANSLATION_DEADBAND, -(TRANSLATION_DEADBAND - 1), 0,
     TRANSLATION_DEADBAND - 1, TRANSLATION_DEADBAND, 50, 100, Far}

HardwareUp == InitLoop(1, <<>>, <<>>, <<>>, NoFail)

InitMix ==
    /\ phoenix = TRUE
    /\ constructed = "ready"
    /\ _enabled = TRUE
    /\ _disable_reason = "None"
    /\ _disable_reported = FALSE
    /\ tuner_drivetrain \in
         {None, [present |-> TRUE, hasDrive |-> TRUE, hasGetter |-> FALSE]}
    /\ _autonomous_factory = FALSE
    /\ drive_motors = HardwareUp.drive_motors
    /\ steer_motors = HardwareUp.steer_motors
    /\ attempted = HardwareUp.attempted
    /\ discovered = TRUE
    /\ commands = {}
    /\ op = [NoOp EXCEPT !.name = "__init__", !.f = NoFail]
    /\ args \in GridValues \X GridValues \X GridValues \X {FALSE}
    /\ writes = <<>>
    /\ calls = _try_create_tuner_auto_factory(NothingFound, 1, <<>>).probes
               \o (IF tuner_drivetrain = None
                   THEN _try_create_tuner_drivetrain(
                            NothingFound, None, 1, <<>>).probes
                   ELSE <<TunerProbe(1, "Ok")>>)
    /\ warnings = <<>>
    /\ disable_warnings = <<>>
    /\ escaped = FALSE
    /\ ret = "none"
    /\ RobotNew

DriveMixAct ==
    /\ \E d \in DelegateDraw :
         \E f \in WriteDraw(~DriveGate /\ d \in {"na", "TypeError"}) :
           \E e \in KindDraw(f) :
             drive(args[1], args[2], args[3], args[4], d, f, e)
    /\ UNCHANGED robotVars

NextMix == DriveMixAct \/ StopAct

SpecMix == InitMix /\ [][NextMix]_vars

----------------------------------------------------------------------------
(* robot.py: the Robot hooks, called by the lifecycle driver.  One loop    *)
(* iteration of the driver runs, in this order: on a mode change the exit  *)
(* hook of the old mode and the init hook of the new one; the periodic     *)
(* hook of the mode; robotPeriodic.  The exit hooks and the disabled and   *)
(* test hooks change no state.  Commands are told apart by what built      *)
(* them, not by object identity.                                           *)

\* self.drive is not None
RobotDrive == constructed = "ready"

\* a hook that makes no call into Drive
NoDriveCall ==
    /\ op' = NoOp
    /\ writes' = <<>>
    /\ calls' = <<>>
    /\ warnings' = <<>>
    /\ escaped' = FALSE
    /\ ret' = "none"
    /\ UNCHANGED <<frozenVars, selfVars, commands, args>>

\* self.drive.<name>(...) with self.drive None: AttributeError
NoneCall(name) ==
    /\ op' = [NoOp EXCEPT !.name = name]
    /\ writes' = <<>>
    /\ calls' = <<>>
    /\ warnings' = <<>>
    /\ escaped' = TRUE
    /\ ret' = "none"
    /\ UNCHANGED <<frozenVars, selfVars, commands, args>>

\* lines 12-28
robotInit(fenv, tenv, shape, hf) ==
    /\ DriveInit(fenv, tenv, shape, hf)
    /\ _drive_faulted' = FALSE
    /\ autonomous_command' = "None"
    /\ hook' = [NoHook EXCEPT !.name = "robotInit"]
    /\ UNCHANGED <<mode, phase, scheduled>>

\* the driver leaves the current mode for another one
Transition(to) ==
    /\ constructed # "new"
    /\ phase = "top"
    /\ mode # to
    /\ mode' = to
    /\ phase' = "periodic"

\* lines 33-34 and 95-96: pass
EmptyInit(name) ==
    /\ NoDriveCall
    /\ hook' = [NoHook EXCEPT !.name = name]
    /\ UNCHANGED <<autonomous_command, _drive_faulted, scheduled>>

\* the guard that is always passed
AutoGate_m == TRUE

\* if self.drive is not None and not self._drive_faulted
AutoGate == RobotDrive /\ ~_drive_faulted

\* lines 42-55
autonomousInit(g, a0, a1) ==
    /\ IF AutoGate
       THEN IF RobotDrive
            THEN get_autonomous_command(g, a0, a1)
            ELSE NoneCall("get_autonomous_command")
       ELSE NoDriveCall
    /\ _drive_faulted' = (_drive_faulted \/ escaped')
    /\ autonomous_command' = IF ret' = "none" THEN "None" ELSE ret'
    /\ scheduled' = IF autonomous_command' # "None"
                    THEN scheduled \cup {autonomous_command'}
                    ELSE scheduled
    /\ hook' = [NoHook EXCEPT !.name = "autonomousInit",
                              !.schedule = autonomous_command']

\* lines 63-67
teleopInit ==
    /\ NoDriveCall
    /\ scheduled' = scheduled \ {autonomous_command}
    /\ autonomous_command' = "None"
    /\ hook' = [NoHook EXCEPT !.name = "teleopInit",
                              !.cancel = autonomous_command]
    /\ UNCHANGED _drive_faulted

\* if self.drive is None or self._drive_faulted: return
TeleopGate == RobotDrive /\ ~_drive_faulted

\* lines 69-90; a: the three axes read from the controller
teleopPeriodic(a, d, f, e) ==
    /\ IF TeleopGate
       THEN drive(a[1], a[2], a[3], FALSE, d, f, e)
       ELSE NoDriveCall
    /\ _drive_faulted' = (_drive_faulted \/ escaped')
    /\ hook' = [NoHook EXCEPT !.name = "teleopPeriodic"]
    /\ UNCHANGED <<autonomous_command, scheduled>>

\* lines 36-37, 57-58 and 98-99: pass
EmptyPeriodic ==
    /\ NoDriveCall
    /\ hook' = [NoHook EXCEPT !.name = mode \o "Periodic"]
    /\ UNCHANGED <<autonomous_command, _drive_faulted, scheduled>>

\* commands built by foreign code; they end when they choose to
ForeignCommands == {"tuner_cmd", "factory_cmd"}

\* lines 30-31: self.scheduler.run().  An InstantCommand runs its action and
\* ends; finished: the foreign commands that end in this run.
robotPeriodic(finished, f, e) ==
    /\ IF "stop" \in scheduled
       THEN RunCommand("stop", f, e)
       ELSE NoDriveCall
    /\ scheduled' = (scheduled \ {"noop", "stop"}) \ finished
    /\ hook' = [NoHook EXCEPT !.name = "robotPeriodic"]
    /\ UNCHANGED <<autonomous_command, _drive_faulted>>

\* axes of the controller in teleopPeriodic
TeleopArgs == {<<50, 0, 0>>, <<Far, -Far, Far>>}

RobotInitAct ==
    /\ constructed = "new"
    /\ \E fenv \in [1..NumCandidates -> FactoryImportOutcomes] :
        \E tenv \in TunerEnvDraw(fenv) :
          \E shape \in ShapeDraw(tenv), hf \in HardwareDraw(fenv, tenv) :
            robotInit(fenv, tenv, shape, hf)

EnterDisabledAct == Transition("disabled") /\ EmptyInit("disabledInit")

EnterAutonomousAct ==
    /\ Transition("autonomous")
    /\ \E g \in (IF AutoGate /\ RobotDrive THEN GetterDraw ELSE {"na"}) :
         \E a0 \in (IF AutoGate /\ RobotDrive THEN FactoryDraw(g)
                                             ELSE {"na"}) :
           \E a1 \in RetryDraw(a0) :
             autonomousInit(g, a0, a1)

EnterTeleopAct == Transition("teleop") /\ teleopInit

EnterTestAct == Transition("test") /\ EmptyInit("testInit")

TeleopPeriodicAct ==
    /\ mode = "teleop"
    /\ phase \in {"top", "periodic"}
    /\ phase' = "run"
    /\ UNCHANGED mode
    /\ \E a \in TeleopArgs :
        \E d \in (IF TeleopGate THEN DelegateDraw ELSE {"na"}) :
          \E f \in WriteDraw(TeleopGate /\ ~DriveGate
                                /\ d \in {"na", "TypeError"}) :
            \E e \in KindDraw(f) :
              teleopPeriodic(a, d, f, e)

EmptyPeriodicAct ==
    /\ mode \in {"disabled", "autonomous", "test"}
    /\ phase \in {"top", "periodic"}
    /\ phase' = "run"
    /\ UNCHANGED mode
    /\ EmptyPeriodic

RobotPeriodicAct ==
    /\ phase = "run"
    /\ phase' = "top"
    /\ UNCHANGED mode
    /\ \E finished \in SUBSET (scheduled \cap ForeignCommands) :
        \E f \in WriteDraw("stop" \in scheduled) :
          \E e \in KindDraw(f) :
            robotPeriodic(finished, f, e)

NextRobot ==
    \/ RobotInitAct
    \/ EnterDisabledAct
    \/ EnterAutonomousAct
    \/ EnterTeleopAct
    \/ EnterTestAct
    \/ TeleopPeriodicAct
    \/ EmptyPeriodicAct
    \/ RobotPeriodicAct

SpecRobot == Init /\ [][NextRobot]_vars

----------------------------------------------------------------------------
(* Properties *)

Ready == constructed = "ready"

DriveIds == [i \in 1..Len(MODULES) |-> MODULES[i].drive_motor_id]
SteerIds == [i \in 1..Len(MODULES) |-> MODULES[i].steer_motor_id]

\* the order in which _init_hardware constructs handles
ConstructionOrder ==
    [k \in 1..2 * Len(MODULES) |->
        IF k % 2 = 1 THEN MODULES[(k + 1) \div 2].drive_motor_id
                     ELSE MODULES[k \div 2].steer_motor_id]

\* zero to every drive handle, then to every steer handle
AllZeroWrites ==
    [i \in 1..Len(drive_motors) |-> [h |-> drive_motors[i], v |-> 0]]
    \o [i \in 1..Len(steer_motors) |-> [h |-> steer_motors[i], v |-> 0]]

IsPrefix(s, t) == Len(s) <= Len(t) /\ s = SubSeq(t, 1, Len(s))

RuntimeFaultReasons ==
    {"init_hardware_failed", "tuner_drive_failed", "drive_output_failed",
     "steer_output_failed", "stop_drive_failed", "stop_steer_failed",
     "tuner_getter_failed", "factory_failed"}

\* C1: once _enabled is false, no step of any operation makes it true again.
C1_MonotonicDisable == [][~_enabled => ~_enabled']_vars

\* C1 witness: disabled by a failed drive write, and a later
\* get_autonomous_command() has run on the disabled subsystem.
C1_Witness ==
    /\ Ready /\ ~_enabled
    /\ _disable_reason = "drive_output_failed"
    /\ op.name = "get_autonomous_command"

\* C2: once a disable reason is stored, no later step changes it.
C2_WriteOnceReason ==
    [][_disable_reason # "None" => _disable_reason' = _disable_reason]_vars

\* C3: when construction has finished, either the subsystem is enabled and
\* both motor lists hold the four handles of MODULES in order, or it is
\* disabled and both lists are empty; on a handle-construction failure the
\* constructions attempted are exactly those up to and including the failing
\* one.
C3_NoPartialPopulation ==
    (Ready /\ op.name = "__init__") =>
        /\ \/ /\ _enabled
              /\ drive_motors = DriveIds
              /\ steer_motors = SteerIds
           \/ /\ ~_enabled
              /\ drive_motors = <<>>
              /\ steer_motors = <<>>
        /\ (op.f >= 0 /\ op.f < NoFail) =>
              /\ ~_enabled
              /\ attempted = SubSeq(ConstructionOrder, 1, op.f + 1)
        /\ op.f = NoFail => _enabled /\ attempted = ConstructionOrder

\* C3 witness: construction finished after the steer handle of the second
\* module failed to construct.
C3_Witness ==
    /\ Ready /\ op.name = "__init__"
    /\ op.f = 3
    /\ ~_enabled
    /\ attempted = <<1, 11, 2, 12>>

\* C4: from a state disabled by a hardware or runtime fault, no operation
\* performs a hardware write, a delegate call or a factory call.
C4_InertAfterFault ==
    [][(Ready /\ ~_enabled /\ _disable_reason \in RuntimeFaultReasons)
          => (writes' = <<>> /\ calls' = <<>>)]_vars

\* C5: drive(), stop() and get_autonomous_command() return normally whatever
\* the outcome of the calls they make, and get_autonomous_command() returns
\* a command.
C5_FaultTotality ==
    (Ready /\ op.name \in {"drive", "stop", "get_autonomous_command"}) =>
        /\ ~escaped
        /\ op.name = "get_autonomous_command"
              => ret \in {"noop", "stop", "tuner_cmd", "factory_cmd"}

\* C5 witness: the factory raised a signature mismatch on the call without
\* argument and again on the retry, and a no-op command was returned.
C5_Witness ==
    /\ Ready /\ op.name = "get_autonomous_command"
    /\ op.a0 = "TypeError" /\ op.a1 = "TypeError"
    /\ ~escaped /\ ret = "noop"

\* C6: every duty cycle written lies in [-1, 1], and stop() writes only 0.
C6_Clamp ==
    /\ \A i \in DOMAIN writes : writes[i].v >= -UNIT /\ writes[i].v <= UNIT
    /\ op.name = "stop" => \A i \in DOMAIN writes : writes[i].v = 0

\* C6 witness: a drive() call with saturating inputs wrote to all eight
\* handles, both limits included.
C6_Witness ==
    /\ op.name = "drive" /\ Len(writes) = 8
    /\ args[1] = Far /\ args[2] = -Far /\ args[3] = Far
    /\ writes[1].v = UNIT /\ writes[4].v = -UNIT

\* the eight writes of a drive() call that gives dv to every drive handle
\* and sv to every steer handle
UniformWrites(dv, sv) ==
    [i \in 1..Len(MODULES) |-> [h |-> DriveIds[i], v |-> dv]]
    \o [i \in 1..Len(MODULES) |-> [h |-> SteerIds[i], v |-> sv]]

HardwareUpNoAlternate ==
    /\ Ready /\ op.name = "drive"
    /\ ~tuner_drivetrain.present /\ ~_autonomous_factory
    /\ args = <<50, 0, 0, FALSE>>
    /\ op.f = NumWrites /\ NumWrites = 8

\* C7 as stated: drive(0.5, 0, 0, false) on the built-in path writes 0.5 to
\* each drive handle and 0 to each steer handle.
C7_Original == HardwareUpNoAlternate => writes = UniformWrites(500, 0)

\* C7 amended: drive(0.5, 0, 0, false) on the built-in path writes
\* clamp(0.5 * MAX_TRANSLATION_OUTPUT) = 0.25 to each drive handle and 0 to
\* each steer handle.
C7_Amended == HardwareUpNoAlternate => writes = UniformWrites(250, 0)

\* C7 witness: the scenario's call has completed all eight writes.
C7_Witness == HardwareUpNoAlternate /\ Len(writes) = 8

\* the reference pipeline of C8, written out with the numbers of the claim
RefDeadband(v) == IF -8 < v /\ v < 8 THEN 0 ELSE v
RefClamp(v) == IF v > 1000 THEN 1000 ELSE IF v < -1000 THEN -1000 ELSE v
RefX == RefDeadband(args[1]) * 5
RefY == RefDeadband(args[2]) * 5
RefW == RefDeadband(args[3]) * 4
RefWrites ==
    <<[h |-> 1, v |-> RefClamp(RefX + RefY + RefW)],
      [h |-> 2, v |-> RefClamp(RefX - RefY - RefW)],
      [h |-> 3, v |-> RefClamp(RefX - RefY + RefW)],
      [h |-> 4, v |-> RefClamp(RefX + RefY - RefW)],
      [h |-> 11, v |-> RefClamp(RefW)],
      [h |-> 12, v |-> RefClamp(RefW)],
      [h |-> 13, v |-> RefClamp(RefW)],
      [h |-> 14, v |-> RefClamp(RefW)]>>

\* a drive() call that ran the built-in path with no write fault
BuiltInCompleted == Ready /\ op.name = "drive" /\ op.f = NumWrites

\* C8: a drive() call that runs the built-in path to the end writes what the
\* reference deadband -> scale -> mix -> clamp gives, to FL, FR, BL, BR and
\* then to the four steer handles; with x = 0, y = 0 and a post-scale
\* rotation of 0.4 that is 0.4, -0.4, 0.4, -0.4 and steer 0.4.
C8_MixingReference ==
    BuiltInCompleted =>
        /\ writes = RefWrites
        /\ (args[1] = 0 /\ args[2] = 0 /\ args[3] = 100) =>
              /\ <<writes[1].v, writes[2].v, writes[3].v, writes[4].v>>
                    = <<400, -400, 400, -400>>
              /\ \A i \in 5..8 : writes[i].v = 400

\* C8 witness: the built-in path completed for an input exactly on the
\* translation deadband, just inside the rotation deadband.
C8_Witness ==
    /\ BuiltInCompleted
    /\ args[1] = 8 /\ args[2] = -8 /\ args[3] = 7
    /\ writes[1].v = 0 /\ writes[2].v = 80 /\ writes[5].v = 0

\* C9: a stop() call writes zeros, to a prefix of "every drive handle then
\* every steer handle" that is the whole of it when no write fails; the only
\* state it changes is the fault-disable of its failing write; and a stop()
\* that follows a stop() and meets the same write outcome makes the same
\* writes and changes no state.
C9_StopIdempotent ==
    [][op'.name = "stop" =>
        /\ IsPrefix(writes', AllZeroWrites)
        /\ op'.f = NumWrites => writes' = AllZeroWrites
        /\ UNCHANGED <<frozenVars, commands, args>>
        /\ \/ UNCHANGED selfVars
           \/ /\ op'.f >= 0 /\ op'.f < NumWrites
              /\ ~_enabled'
              /\ _disable_reason' \in {"stop_drive_failed", "stop_steer_failed"}
        /\ (op.name = "stop" /\ op'.f = op.f) =>
              /\ writes' = writes
              /\ UNCHANGED selfVars]_vars

\* C9 witness: a stop() whose third write failed has disabled the subsystem.
C9_Witness ==
    /\ Ready /\ op.name = "stop" /\ op.f = 2
    /\ Len(writes) = 2
    /\ ~_enabled /\ _disable_reason = "stop_drive_failed"

\* C10: when the driver library is unavailable, construction leaves the
\* subsystem disabled with empty motor lists, no handle construction
\* attempted and no alternate-drivetrain discovery run; afterwards no
\* operation writes to hardware or changes the fault state, and
\* get_autonomous_command() returns the no-op command.
C10_LibraryUnavailable ==
    (Ready /\ ~phoenix) =>
        /\ ~_enabled
        /\ _disable_reason = "phoenix_unavailable"
        /\ _disable_reported
        /\ disable_warnings = <<"phoenix_unavailable">>
        /\ drive_motors = <<>> /\ steer_motors = <<>>
        /\ attempted = <<>>
        /\ ~discovered
        /\ tuner_drivetrain = None
        /\ writes = <<>>
        /\ \A k \in DOMAIN calls : calls[k].fn = "import_factory"
        /\ ~escaped
        /\ op.name = "get_autonomous_command" => ret = "noop"

\* C10 witness: without the driver library, the command returned by
\* get_autonomous_command() has been run.
C10_Witness ==
    /\ Ready /\ ~phoenix
    /\ op.name = "run" /\ op.c = "noop"

\* entries of the call log
Getter == [fn |-> "getter", with |-> <<>>]
FactoryCalls(log) == SelectSeq(log, LAMBDA c : c.fn = "factory")

\* C11: a drive() call on a disabled subsystem writes nothing, does not call
\* the alternate drivetrain, and leaves _enabled, _disable_reason, the
\* reported flag and both motor lists as they were.
C11_DriveNoOpWhenDisabled ==
    [][(Ready /\ ~_enabled /\ op'.name = "drive") =>
          /\ writes' = <<>>
          /\ calls' = <<>>
          /\ ~escaped'
          /\ UNCHANGED <<_enabled, _disable_reason, _disable_reported,
                         disable_warnings, drive_motors, steer_motors>>]_vars

\* C11 witness: a drive() call has returned on a subsystem that was disabled
\* by an earlier failing delegate call and still holds its eight handles and
\* its alternate drivetrain.
C11_Witness ==
    /\ Ready /\ ~_enabled /\ op.name = "drive" /\ op.d = "na"
    /\ _disable_reason = "tuner_drive_failed"
    /\ tuner_drivetrain.hasDrive
    /\ NumWrites = 8 /\ writes = <<>> /\ calls = <<>>

\* C12: an enabled drive() with an alternate drivetrain that has drive()
\* calls it with the four arguments; a normal return ends the call with no
\* write; a signature mismatch runs the built-in path in the same call and
\* does not itself disable; any other fault disables with the delegate's
\* fault as reason and nothing is written.
C12_Delegation ==
    [][(Ready /\ _enabled /\ tuner_drivetrain.present
          /\ tuner_drivetrain.hasDrive /\ op'.name = "drive") =>
          /\ calls' = <<[fn |-> "tuner_drive", with |-> args']>>
          /\ op'.d \in DelegateOutcomes
          /\ op'.d = "ok" =>
                /\ writes' = <<>>
                /\ UNCHANGED selfVars
          /\ op'.d = "TypeError" =>
                /\ op'.f >= 0 /\ op'.f <= NumWrites
                /\ Len(writes') = op'.f
                /\ \A i \in DOMAIN writes' :
                      writes'[i].h = (DriveIds \o SteerIds)[i]
                /\ op'.f = NumWrites => (NumWrites = 8 /\ UNCHANGED selfVars)
                /\ op'.f < NumWrites =>
                      _disable_reason' \in {"drive_output_failed",
                                            "steer_output_failed"}
          /\ op'.d = "Exception" =>
                /\ ~_enabled'
                /\ _disable_reason' = "tuner_drive_failed"
                /\ writes' = <<>>]_vars

\* C12 witness: the delegate raised a signature mismatch, the built-in path
\* wrote all eight handles and the subsystem is still enabled.
C12_Witness ==
    /\ Ready /\ op.name = "drive" /\ op.d = "TypeError"
    /\ Len(calls) = 1 /\ Len(writes) = 8 /\ _enabled

\* C13: get_autonomous_command() on a disabled subsystem calls neither the
\* getter nor the factory and returns a no-op command; a getter that raises
\* disables, returns a no-op command and the factory is not called; the
\* factory is called only when the getter is absent or gave nothing
\* schedulable; a schedulable result of a tier is returned without any later
\* tier (a later call, or the fallback warning).
C13_TierOrdering ==
    [][(Ready /\ op'.name = "get_autonomous_command") =>
          /\ ~_enabled => (calls' = <<>> /\ ret' = "noop")
          /\ op'.g \in FaultKinds =>
                /\ calls' = <<Getter>>
                /\ ~_enabled' /\ ret' = "noop"
          /\ FactoryCalls(calls') # <<>> =>
                /\ _enabled /\ _autonomous_factory
                /\ op'.g \in {"na", "none", "nonsched"}
                /\ op'.g = "na" <=> ~(tuner_drivetrain.present
                                       /\ tuner_drivetrain.hasGetter)
          /\ op'.g = "cmd" =>
                /\ ret' = "tuner_cmd"
                /\ calls' = <<Getter>>
                /\ warnings' = <<>>
          /\ (op'.a0 = "cmd" \/ op'.a1 = "cmd") =>
                /\ ret' = "factory_cmd"
                /\ warnings' = <<>>
                /\ calls'[Len(calls')].fn = "factory"
                /\ op'.a0 = "cmd" => Len(FactoryCalls(calls')) = 1]_vars

\* C13 witness: with a factory present, the getter raised; only the getter
\* was called and a no-op command came back.
C13_Witness ==
    /\ Ready /\ op.name = "get_autonomous_command"
    /\ op.g = "Exception" /\ _autonomous_factory
    /\ calls = <<Getter>> /\ ret = "noop" /\ ~_enabled

\* neither tier gave a schedulable command, and none raised a fault other
\* than the signature mismatch that leads to the retry
NothingSchedulable(o) ==
    /\ o.g \in {"na", "none", "nonsched"}
    /\ \/ o.a0 \in {"na", "none", "nonsched"}
       \/ o.a0 = "TypeError" /\ o.a1 \in {"none", "nonsched"}

\* C14: an enabled get_autonomous_command() for which neither tier yields a
\* schedulable command reports exactly one "no autonomous source" warning,
\* changes no state and returns the stop command; running that command with
\* no write failing writes zero to every handle.
C14_FinalFallback ==
    [][/\ (Ready /\ _enabled /\ op'.name = "get_autonomous_command"
             /\ NothingSchedulable(op')) =>
             /\ warnings' = <<"no_autonomous_source">>
             /\ ret' = "stop"
             /\ "stop" \in commands'
             /\ ~escaped'
             /\ UNCHANGED <<selfVars, frozenVars>>
       /\ (op'.name = "run" /\ op'.c = "stop" /\ op'.f = NumWrites) =>
             writes' = AllZeroWrites]_vars

\* C14 witness: the factory returned nothing, the subsystem is enabled and
\* the stop command was returned with the one warning.
C14_Witness ==
    /\ Ready /\ _enabled /\ op.name = "get_autonomous_command"
    /\ op.a0 = "none" /\ ret = "stop"
    /\ warnings = <<"no_autonomous_source">>
    /\ NumWrites = 8

\* C15: the factory is called first with no argument; it is called a second
\* time, with the subsystem as only argument, exactly when the first call
\* raised a signature mismatch; never more than twice; any other fault of
\* the first call and any fault of the retry disable the subsystem and give
\* a no-op command.
C15_FactoryRetry ==
    (Ready /\ op.name = "get_autonomous_command") =>
        LET F == FactoryCalls(calls)
        IN  /\ Len(F) <= 2
            /\ Len(F) >= 1 => F[1].with = <<>>
            /\ Len(F) >= 1 <=> op.a0 # "na"
            /\ Len(F) = 2 <=> op.a0 = "TypeError"
            /\ Len(F) = 2 => F[2].with = <<"self">>
            /\ op.a0 = "Exception" =>
                  /\ ~_enabled /\ ret = "noop"
                  /\ _disable_reason = "factory_failed"
            /\ (op.a0 = "TypeError" /\ op.a1 \in FaultKinds) =>
                  /\ ~_enabled /\ ret = "noop"
                  /\ _disable_reason = "factory_failed"

\* C15 witness: the call without argument raised a signature mismatch and
\* the retry with the subsystem returned a command.
C15_Witness ==
    /\ Ready /\ op.name = "get_autonomous_command"
    /\ op.a0 = "TypeError" /\ op.a1 = "cmd"
    /\ Len(FactoryCalls(calls)) = 2 /\ ret = "factory_cmd"

\* C16: drive() on the built-in path and stop() write drive[0..3] and then
\* steer[0..3]; when the write at position k of that order fails, exactly the
\* k earlier handles were written, the subsystem is disabled, and the reason
\* names drive or steer according to k.
C16_WriteOrderAbort ==
    (Ready /\ op.name \in {"drive", "stop"} /\ op.f >= 0) =>
        /\ Len(writes) = op.f
        /\ \A i \in DOMAIN writes :
              writes[i].h = (drive_motors \o steer_motors)[i]
        /\ op.f < NumWrites =>
              /\ ~_enabled
              /\ _disable_reason =
                    IF op.name = "drive"
                    THEN IF op.f < Len(drive_motors)
                         THEN "drive_output_failed"
                         ELSE "steer_output_failed"
                    ELSE IF op.f < Len(drive_motors)
                         THEN "stop_drive_failed"
                         ELSE "stop_steer_failed"

\* C16 witness: a drive() call whose write to the second steer handle failed
\* after five writes.
C16_Witness ==
    /\ Ready /\ op.name = "drive" /\ op.f = 5
    /\ Len(writes) = 5 /\ writes[5].h = 11
    /\ _disable_reason = "steer_output_failed"

\* the import log of the construction, per discovery routine
Probes(kind) == SelectSeq(calls, LAMBDA c : c.fn = kind)
Location(p) == p.with[1]
Outcome(p) == p.with[2]

\* outcomes after which the search goes on to the next candidate
SkippedOutcomes == {"ModuleNotFound", "NoSymbol", "NotCallable"}

\* a search tried the candidates in list order from the first, went past a
\* candidate only when its location or symbol was missing, and went through
\* the whole list unless a candidate ended it
InListOrder(P) ==
    /\ Len(P) <= NumCandidates
    /\ \A j \in DOMAIN P : Location(P[j]) = j
    /\ \A j \in DOMAIN P : j < Len(P) => Outcome(P[j]) \in SkippedOutcomes
    /\ (P = <<>> \/ Outcome(P[Len(P)]) \in SkippedOutcomes)
          => Len(P) = NumCandidates

\* C17: both searches go through their candidates in list order; the first
\* candidate that resolves wins and nothing after it is imported; a missing
\* location or symbol is passed over without a warning; a drivetrain whose
\* construction fails is reported once and ends the search with None; the
\* result is None when no candidate resolves.
C17_SearchOrder ==
    (Ready /\ op.name = "__init__") =>
        LET F == Probes("import_factory")
            T == Probes("import_tuner")
        IN  /\ InListOrder(F)
            /\ _autonomous_factory <=> Outcome(F[Len(F)]) = "Ok"
            /\ discovered <=> T # <<>>
            /\ discovered =>
                  /\ InListOrder(T)
                  /\ tuner_drivetrain.present <=> Outcome(T[Len(T)]) = "Ok"
                  /\ Outcome(T[Len(T)]) = "CtorFault" <=>
                        "tuner_construct_failed" \in
                            {warnings[k] : k \in DOMAIN warnings}
                  /\ Len(SelectSeq(warnings,
                         LAMBDA w : w = "tuner_construct_failed")) <= 1
            /\ \A k \in DOMAIN warnings :
                  warnings[k] \in {"tuner_construct_failed", _disable_reason}

\* C17 witness: the first drivetrain candidate was missing, the second was
\* found but failed to construct; the third was not imported.
C17_Witness ==
    /\ Ready /\ op.name = "__init__"
    /\ Len(Probes("import_tuner")) = 2
    /\ Outcome(Probes("import_tuner")[1]) = "ModuleNotFound"
    /\ Outcome(Probes("import_tuner")[2]) = "CtorFault"
    /\ tuner_drivetrain = None
    /\ warnings = <<"tuner_construct_failed">>

\* C18: whatever importing the candidate locations yields, both discovery
\* routines return and Drive construction is not aborted.
C18_DiscoveryNeverThrows ==
    op.name = "__init__" => (constructed = "ready" /\ ~escaped)

\* C19: whenever the driver leaves autonomous mode, for any other mode, no
\* autonomous command stays scheduled; and when autonomousInit drops the
\* reference it holds, the command it referred to is not still scheduled.
C19_CancelOnExit ==
    [][/\ (mode = "autonomous" /\ mode' # "autonomous") => scheduled' = {}
       /\ (hook'.name = "autonomousInit" /\ autonomous_command # "None")
             => autonomous_command \notin scheduled]_vars

\* the hooks that call into Drive
DriveCallingHooks == {"autonomousInit", "teleopPeriodic"}

\* C20: autonomousInit calls get_autonomous_command() once when a Drive was
\* constructed and the drive-fault latch is clear, and not at all otherwise;
\* it schedules the command returned, once; no other hook calls
\* get_autonomous_command(); and with no Drive or with the latch set,
\* neither autonomousInit nor teleopPeriodic calls into Drive.
C20_OncePerEntry ==
    [][/\ hook'.name = "autonomousInit" =>
            IF RobotDrive /\ ~_drive_faulted
            THEN /\ op'.name = "get_autonomous_command"
                 /\ ~escaped'
                 /\ ret' # "none"
                 /\ hook'.schedule = ret'
                 /\ autonomous_command' = ret'
                 /\ scheduled' = scheduled \cup {ret'}
            ELSE /\ op' = NoOp
                 /\ hook'.schedule = "None"
                 /\ scheduled' = scheduled
       /\ op'.name = "get_autonomous_command"
            => hook'.name = "autonomousInit"
       /\ (hook'.name \in DriveCallingHooks
             /\ (~RobotDrive \/ _drive_faulted))
            => (op' = NoOp /\ writes' = <<>> /\ calls' = <<>>
                  /\ UNCHANGED <<selfVars, _drive_faulted>>)]_vars

\* C20 witness: autonomous mode has been entered a second time, with a
\* constructed Drive, and the factory's command was requested and scheduled.
C20_Witness ==
    /\ RobotDrive /\ ~_drive_faulted
    /\ mode = "autonomous" /\ hook.name = "autonomousInit"
    /\ op.name = "get_autonomous_command" /\ ret = "factory_cmd"
    /\ hook.schedule = "factory_cmd"
    /\ scheduled = {"tuner_cmd", "factory_cmd"}

\* C21: once construction has returned, no step of drive(), stop(),
\* get_autonomous_command() or of a command they built, faulting or not,
\* changes the two handle lists, the alternate drivetrain handle or the
\* autonomous factory.
C21_ConstructionFrozen ==
    [][Ready => UNCHANGED <<drive_motors, steer_motors, tuner_drivetrain,
                            _autonomous_factory>>]_vars

\* C21 witness: a failed steer write in drive() has disabled the subsystem,
\* and all eight handles are still held.
C21_Witness ==
    /\ Ready /\ op.name = "drive" /\ ~_enabled
    /\ _disable_reason = "steer_output_failed"
    /\ drive_motors = DriveIds /\ steer_motors = SteerIds

\* C22: _disable reports at most one warning over the lifetime of the
\* subsystem, however often it runs; that warning is the reason of the
\* fault that disabled the subsystem; and the reported flag is true exactly
\* when the subsystem is not enabled.
C22_OneShotWarning ==
    /\ [](/\ Len(disable_warnings) <= 1
          /\ _disable_reported <=> ~_enabled
          /\ _disable_reported <=> disable_warnings # <<>>)
    /\ [][/\ disable_warnings # <<>> => disable_warnings' = disable_warnings
          /\ (_enabled /\ ~_enabled')
                => disable_warnings' = <<_disable_reason'>>]_vars

\* C22 witness: _disable has run a second time, with another reason (a stop
\* write failed on the disabled subsystem), and the one warning is still
\* that of the first fault.
C22_Witness ==
    /\ Ready /\ ~_enabled
    /\ disable_warnings = <<"drive_output_failed">>
    /\ _disable_reason = "stop_steer_failed"
    /\ warnings = <<>>

====
